---- MODULE Spec2Model ----
(***************************************************************************)
(* Anomaly-detection postprocessing (Dinomaly, UniNet, GLASS) and the      *)
(* heatmap renderer of usls, as state machines.                            *)
(*                                                                         *)
(* f32 values are modelled as exact rationals num/den plus a NaN flag;     *)
(* tensor elements are tenths (den = 10).  Tensors are ndarray-style       *)
(* records: a shape (sequence of dimensions) and the elements in row-major *)
(* (logical) order.  Option<T> is <<>> (None) or <<x>> (Some(x)).          *)
(***************************************************************************)
EXTENDS Integers, Sequences, FiniteSets, TLC

VARIABLES
    model,      \* which strategy's postprocess is called
    xs,         \* Xs: the output tensor sequence handed to postprocess
    ret,        \* what postprocess gave its caller: Pending / Ok(results) / Err / Panic
    target,     \* what draw is called on: one "HeatMap" or a "Vec" of them
    hms,        \* the heatmaps drawn (one element when target = "HeatMap")
    ctx,        \* DrawContext: the caller's global styles per category
    canvas,     \* the caller's RgbaImage, mutated in place
    before,     \* the canvas as it was handed to draw
    offset,     \* <<x_offset, y_offset>> of the HeatMap::draw call entered last
    drawn       \* what draw gave its caller: Pending / Ok / Panic

vars == <<model, xs, ret, target, hms, ctx, canvas, before, offset, drawn>>

\* ------------------------------------------------------------------ bounds
MaxB == 2       \* largest batch dimension explored
MaxH == 2       \* largest map height explored
MaxW == 2       \* largest map width explored
MaxCanvas == 4  \* largest canvas side explored
MaxRaster == 2  \* largest heatmap raster side explored
MaxVec == 2     \* longest Vec<HeatMap> drawn
MaxEdge == 1    \* widest edge-ignore band asked for

\* ------------------------------------------------------- program constants
ExpectedOutputs == 4    \* Dinomaly: `if xs.len() < 4`
U8Max == 255            \* `v * 255.0`, `as u8`
GlassOut == 900         \* GLASS: resize(&small, 900, 900, Triangle)
DefaultAlpha == 120     \* HeatMap::draw: color_fill_alpha().unwrap_or(120)

\* ------------------------------------------------------------------- f32
F(n) == [nan |-> FALSE, num |-> n, den |-> 10]
NaN == [nan |-> TRUE, num |-> 0, den |-> 1]
Zero == [nan |-> FALSE, num |-> 0, den |-> 1]
One == [nan |-> FALSE, num |-> 1, den |-> 1]

\* a < b on non-NaN values (any comparison with NaN is false in IEEE 754)
FLt(a, b) == ~a.nan /\ ~b.nan /\ a.num * b.den < b.num * a.den

\* f32::clamp(0.0, 1.0): NaN stays NaN
Clamp01(v) ==
    IF FLt(v, Zero) THEN Zero
    ELSE IF FLt(One, v) THEN One
    ELSE v

\* (v * 255.0) as u8: the cast truncates toward zero, saturates, and maps NaN to 0
Times255AsU8(v) ==
    IF v.nan THEN 0
    ELSE IF v.num * U8Max < 0 THEN 0
    ELSE IF (v.num * U8Max) \div v.den > U8Max THEN U8Max
    ELSE (v.num * U8Max) \div v.den

\* f32::max: a NaN operand is ignored
F32Max(a, b) ==
    IF a.nan THEN b
    ELSE IF b.nan THEN a
    ELSE IF FLt(a, b) THEN b ELSE a

RECURSIVE FoldMax(_, _)
FoldMax(acc, s) ==
    IF s = <<>> THEN acc ELSE FoldMax(F32Max(acc, Head(s)), Tail(s))

\* iter().sum() of tenths: NaN as soon as one element is NaN
RECURSIVE SumNum(_)
SumNum(s) == IF s = <<>> THEN 0 ELSE Head(s).num + SumNum(Tail(s))

FSum(s) ==
    IF \E j \in 1..Len(s) : s[j].nan THEN NaN
    ELSE [nan |-> FALSE, num |-> SumNum(s), den |-> 10]

\* sum / count as f32
FDivCount(s, count) ==
    IF s.nan THEN NaN ELSE [nan |-> FALSE, num |-> s.num, den |-> s.den * count]

\* ------------------------------------------------------------ ndarray views
RECURSIVE Size(_)
Size(shape) == IF shape = <<>> THEN 1 ELSE Head(shape) * Size(Tail(shape))

Ndim(t) == Len(t.shape)

\* index_axis(Axis(0), i) / one item of axis_iter(Axis(0)) / outer_iter():
\* the i-th subview along the first axis (i is 0-based, i < shape[0])
SubView(t, i) ==
    [shape |-> Tail(t.shape),
     data  |-> SubSeq(t.data, i * Size(Tail(t.shape)) + 1, (i + 1) * Size(Tail(t.shape)))]

\* index_axis(Axis(0), i) panics when the axis has no index i
IndexAxisPanics(t, i) == Ndim(t) = 0 \/ i >= t.shape[1]

\* t[[i]] and t[[i, 0]] panic on a rank mismatch or an out-of-range index
Index1Panics(t, i) == Ndim(t) # 1 \/ i >= t.shape[1]
Index2Panics(t, i, j) == Ndim(t) # 2 \/ i >= t.shape[1] \/ j >= t.shape[2]
Index1(t, i) == t.data[i + 1]
Index2(t, i, j) == t.data[i * t.shape[2] + j + 1]

\* mapv(|v| v.clamp(0.0, 1.0))
MapVClamp(t) == [t EXCEPT !.data = [j \in 1..Len(t.data) |-> Clamp01(t.data[j])]]

\* ------------------------------------------------------------ result types
\* GrayImage::new(w, h): a zeroed raster, row-major, pixel (x, y) at y * w + x
GrayImage(w, h, px) == [width |-> w, height |-> h, data |-> px]

\* Heatmap::from(gray) / HeatMap::default().with_map(..): no confidence, name, id, style
HeatmapFrom(gray) ==
    [map |-> gray, confidence |-> <<>>, name |-> <<>>, id |-> <<>>, style |-> <<>>]

\* Prob::default().with_name(n).with_id(i).with_confidence(c)
Prob(n, i, c) == [name |-> n, id |-> i, confidence |-> c]

\* Y::default().with_heatmaps(hs).with_probs(ps); an absent field is the empty sequence
Y(hs, ps) == [heatmaps |-> hs, probs |-> ps]

\* the nested loops `for (y, row) in raw.outer_iter().enumerate()` /
\* `for (x, &v) in row.iter().enumerate()` with put_pixel(x, y, Luma([(v * 255.0) as u8])):
\* row.iter() walks every element of the y-th subview; put_pixel panics outside w x h
RowLen(raw) == Size(Tail(raw.shape))

PutPixelPanics(raw, w, h) ==
    \E y \in 0..(raw.shape[1] - 1), x \in 0..(RowLen(raw) - 1) : x >= w \/ y >= h

PutPixels(raw, w, h) ==
    GrayImage(w, h,
        [j \in 1..(w * h) |->
            LET x == (j - 1) % w
                y == (j - 1) \div w
            IN  IF y < raw.shape[1] /\ x < RowLen(raw)
                THEN Times255AsU8(raw.data[y * RowLen(raw) + x + 1])
                ELSE 0])

\* the score read without `.clamp(0.0, 1.0)`
GlobalScoreUnclamped(t, i) == IF Ndim(t) = 1 THEN Index1(t, i) ELSE Index2(t, i, 0)

\* the global score of item i: pred_score_tensor[[i]] if ndim() == 1, else [[i, 0]]
ScorePanics(t, i) == IF Ndim(t) = 1 THEN Index1Panics(t, i) ELSE Index2Panics(t, i, 0)
GlobalScore(t, i) == Clamp01(IF Ndim(t) = 1 THEN Index1(t, i) ELSE Index2(t, i, 0))

Panicked == [status |-> "Panic"]
Failed == [status |-> "Err"]
Done(y) == [status |-> "Ok", y |-> y]

\* ------------------------------------------------------------ Dinomaly
\* one iteration of the loop of Dinomaly::postprocess, for batch index i
DinomalyItem(scoreT, mapT, i) ==
    LET batch_out == SubView(mapT, i)
        squeeze == Ndim(batch_out) = 3
    IN  IF squeeze /\ IndexAxisPanics(batch_out, 0) THEN Panicked
        ELSE
        LET raw_map == MapVClamp(IF squeeze THEN SubView(batch_out, 0) ELSE batch_out)
        IN  IF Ndim(raw_map) < 2 THEN Panicked
            ELSE
            LET h == raw_map.shape[1]
                w == raw_map.shape[2]
            IN  IF PutPixelPanics(raw_map, w, h) THEN Panicked
                ELSE IF ScorePanics(scoreT, i) THEN Panicked
                ELSE Done(Y(<<[HeatmapFrom(PutPixels(raw_map, w, h))
                                 EXCEPT !.confidence = <<GlobalScore(scoreT, i)>>]>>, <<>>))

\* ------------------------------------------------------------ UniNet
\* GrayImage::from_raw(w, h, pixels) is None when the buffer is shorter than w * h
FromRawFails(w, h, pixels) == Len(pixels) < w * h

UniNetItem(scoreT, mapT, i) ==
    LET batch_out == SubView(mapT, i)
    IN  IF IndexAxisPanics(batch_out, 0) THEN Panicked
        ELSE
        LET map_2d == SubView(batch_out, 0)
        IN  IF Ndim(map_2d) < 2 THEN Panicked
            ELSE
            LET height == map_2d.shape[1]
                width == map_2d.shape[2]
                pixels == [j \in 1..Len(map_2d.data) |->
                              Times255AsU8(Clamp01(map_2d.data[j]))]
            IN  IF FromRawFails(width, height, pixels) THEN Failed
                ELSE IF ScorePanics(scoreT, i) THEN Panicked
                ELSE Done(Y(<<[HeatmapFrom(GrayImage(width, height, pixels))
                                 EXCEPT !.confidence = <<GlobalScore(scoreT, i)>>]>>, <<>>))

\* ------------------------------------------------------------ GLASS
\* image::imageops::resize(&small, nw, nh, Triangle): the resampled pixels are not
\* interpreted; the result keeps the term it was computed from
Resize(img, nw, nh) ==
    [width |-> nw, height |-> nh,
     data |-> [op |-> "resize", filter |-> "Triangle", src |-> img]]

GLASSItem(outT, i) ==
    LET batch_out == SubView(outT, i)
        raw_map == MapVClamp(batch_out)
        max_score == FoldMax(Zero, raw_map.data)
        sum == FSum(raw_map.data)
        count == Len(raw_map.data)
        mean_score == IF count > 0 THEN FDivCount(sum, count) ELSE Zero
    IN  IF Ndim(raw_map) < 2 THEN Panicked
        ELSE
        LET h == raw_map.shape[1]
            w == raw_map.shape[2]
        IN  IF PutPixelPanics(raw_map, w, h) THEN Panicked
            ELSE Done(Y(<<[HeatmapFrom(Resize(PutPixels(raw_map, w, h), GlassOut, GlassOut))
                             EXCEPT !.name = <<"anomaly">>]>>,
                        <<Prob("peak_anomaly_score", 0, max_score),
                          Prob("mean_anomaly_score", 1, mean_score)>>))

\* the items pushed at the front instead of the back
CollectReversed(items) ==
    LET bad == {k \in 1..Len(items) : items[k].status # "Ok"}
    IN  IF bad = {}
        THEN [tag |-> "Ok", val |-> [k \in 1..Len(items) |-> items[Len(items) + 1 - k].y]]
        ELSE [tag |-> items[CHOOSE k \in bad : \A l \in bad : k <= l].status]

\* ------------------------------------------------------------ the loops
\* `for (i, batch_out) in t.axis_iter(Axis(0)).enumerate()`: items in index order;
\* the first panic or `?` ends the call and drops what was pushed so far
Collect(items) ==
    LET bad == {k \in 1..Len(items) : items[k].status # "Ok"}
    IN  IF bad = {}
        THEN [tag |-> "Ok", val |-> [k \in 1..Len(items) |-> items[k].y]]
        ELSE [tag |-> items[CHOOSE k \in bad : \A l \in bad : k <= l].status]

\* xs[n] (Index<usize> for Xs) has no tensor to refer to when n >= xs.len(): it panics
XsIndexPanics(x, n) == n >= Len(x)

DinomalyResult(x) ==
    IF Len(x) < ExpectedOutputs THEN [tag |-> "Err"]
    ELSE IF XsIndexPanics(x, 0) \/ XsIndexPanics(x, 2) THEN [tag |-> "Panic"]
    ELSE IF Ndim(x[3]) = 0 THEN [tag |-> "Panic"]
    ELSE Collect([k \in 1..x[3].shape[1] |-> DinomalyItem(x[1], x[3], k - 1)])

UniNetResult(x) ==
    IF XsIndexPanics(x, 0) \/ XsIndexPanics(x, 2) THEN [tag |-> "Panic"]
    ELSE IF Ndim(x[3]) = 0 THEN [tag |-> "Panic"]
    ELSE Collect([k \in 1..x[3].shape[1] |-> UniNetItem(x[1], x[3], k - 1)])

GLASSResult(x) ==
    IF XsIndexPanics(x, 0) THEN [tag |-> "Panic"]
    ELSE IF Ndim(x[1]) = 0 THEN [tag |-> "Panic"]
    ELSE Collect([k \in 1..x[1].shape[1] |-> GLASSItem(x[1], k - 1)])

\* ------------------------------------------------------------ inputs
\* element values the tensors are filled from (tenths), NaN included
ValSeq == <<F(0), F(10), F(5), F(2), F(9), F(12), F(-3), NaN>>
ScoreSeq == <<F(3), F(12), F(-3), NaN>>

\* n elements: one value repeated, or the values of vals in cyclic order from off
Fill(vals, kind, off, n) ==
    [j \in 1..n |->
        IF kind = "const" THEN vals[off] ELSE vals[((off + j - 2) % Len(vals)) + 1]]

TensorsOf(shapes, vals) ==
    {[shape |-> sh, data |-> Fill(vals, kind, off, Size(sh))] :
        sh \in shapes, kind \in {"const", "ramp"}, off \in 1..Len(vals)}

\* spatial maps [B, H, W] and [B, 1, H, W]
MapTensors ==
    TensorsOf({<<b, h, w>> : b \in 0..MaxB, h \in 1..MaxH, w \in 1..MaxW}
              \cup {<<b, 1, h, w>> : b \in 0..MaxB, h \in 1..MaxH, w \in 1..MaxW},
              ValSeq)

\* global scores [B] and [B, 1]
ScoreTensors ==
    TensorsOf({<<b>> : b \in 0..MaxB} \cup {<<b, 1>> : b \in 0..MaxB}, ScoreSeq)

\* the outputs postprocess does not read
Unused == [shape |-> <<0>>, data |-> <<>>]

Models == {"Dinomaly", "UniNet", "GLASS"}

Pending == [tag |-> "Pending"]

\* ==================================================================== draw
\* ------------------------------------------------------------------ style
Style(alpha, cmap) == [color_fill_alpha |-> alpha, colormap256 |-> cmap]

\* Style::default(): no fill alpha, no colormap
StyleDefault == Style(<<>>, <<>>)

\* DrawContext::update_style(local, global, id): the instance's style, else the
\* global one, else the default
UpdateStyle(local, global, id) ==
    IF local # <<>> THEN local[1]
    ELSE IF global # <<>> THEN global[1]
    ELSE StyleDefault

\* <HeatMap as Drawable>::get_local_style / get_global_style / get_id
GetLocalStyle(hm) == hm.style
GetGlobalStyle(hm, c) == c.mask_style
GetId(hm) == hm.id

\* <Vec<HeatMap> as Drawable>::get_global_style (Vec::draw never calls it)
VecGetGlobalStyle(hs, c) == c.heatmap_style

\* ------------------------------------------------------------------ pixels
\* get_pixel(x, y) of a row-major image
GetPixel(img, x, y) == img.data[y * img.width + x + 1]

\* colormap.data()[value].rgb(): the lookup tables explored
ColormapRgb(cmap, value) ==
    IF cmap = "gray" THEN <<value, value, value>>
    ELSE <<U8Max - value, value, U8Max>>

\* the built-in gradient, green -> yellow -> red: with norm = value / 255,
\* r = norm < 0.5 ? 2 norm : 1 and g = norm < 0.5 ? 1 : 2 (1 - norm), scaled by 255
\* and truncated (exact arithmetic; f32 rounding is not modelled)
GradientRgb(value) ==
    <<IF 2 * value < U8Max THEN 2 * value ELSE U8Max,
      IF 2 * value < U8Max THEN U8Max ELSE 2 * (U8Max - value),
      0>>

Color(value, style, alpha) ==
    LET rgb == IF style.colormap256 # <<>>
               THEN ColormapRgb(style.colormap256[1], value)
               ELSE GradientRgb(value)
    IN  <<rgb[1], rgb[2], rgb[3], alpha>>

\* Rgba<u8>::blend of the image crate (alpha-over), in exact arithmetic
Blend(bg, fg) ==
    IF fg[4] = 0 THEN bg
    ELSE IF fg[4] = U8Max THEN fg
    ELSE
    LET af == bg[4] * U8Max + fg[4] * U8Max - bg[4] * fg[4]
        ch(k) == (fg[k] * fg[4] * U8Max + bg[k] * bg[4] * (U8Max - fg[4])) \div af
    IN  IF af = 0 THEN bg ELSE <<ch(1), ch(2), ch(3), af \div U8Max>>

Transparent == <<0, 0, 0, 0>>

\* i32 division truncates toward zero
TruncDiv(a, b) == IF a >= 0 THEN a \div b ELSE 0 - ((0 - a) \div b)

Max0(a) == IF a > 0 THEN a ELSE 0

\* the offset without the halving
CenterOffsetNotHalved(w, mw) == Max0(w - mw)

\* ((w as i32 - mw as i32) / 2).max(0) as u32
CenterOffset(w, mw) == Max0(TruncDiv(w - mw, 2))

\* overlay.put_pixel(x + x_offset, y + y_offset, ..) panics outside the w x h overlay
OverlayPutPanics(w, h, mw, mh, xo, yo) ==
    \E y \in 0..(mh - 1), x \in 0..(mw - 1) : x + xo >= w \/ y + yo >= h

\* the overlay buffer created opaque black instead of transparent
OverlayImageOpaque(hm, style, alpha, w, h, xo, yo) ==
    [width |-> w, height |-> h,
     data |-> [j \in 1..(w * h) |->
        LET px == (j - 1) % w
            py == (j - 1) \div w
        IN  IF px >= xo /\ px < xo + hm.map.width /\ py >= yo /\ py < yo + hm.map.height
            THEN Color(GetPixel(hm.map, px - xo, py - yo), style, alpha)
            ELSE <<0, 0, 0, U8Max>>]]

\* the overlay buffer after the loops: RgbaImage::new(w, h) is transparent
OverlayImage(hm, style, alpha, w, h, xo, yo) ==
    [width |-> w, height |-> h,
     data |-> [j \in 1..(w * h) |->
        LET px == (j - 1) % w
            py == (j - 1) \div w
        IN  IF px >= xo /\ px < xo + hm.map.width /\ py >= yo /\ py < yo + hm.map.height
            THEN Color(GetPixel(hm.map, px - xo, py - yo), style, alpha)
            ELSE Transparent]]

\* image::imageops::overlay(canvas, &overlay, 0, 0): blend pixel by pixel
Overlay(cv, top) ==
    [cv EXCEPT !.data = [j \in 1..Len(cv.data) |-> Blend(cv.data[j], top.data[j])]]

\* <HeatMap as Drawable>::draw
HeatMapDrawResult(hm, c, cv) ==
    LET style == UpdateStyle(GetLocalStyle(hm), GetGlobalStyle(hm, c), GetId(hm))
        alpha == IF style.color_fill_alpha # <<>> THEN style.color_fill_alpha[1]
                 ELSE DefaultAlpha
        w == cv.width
        h == cv.height
        mw == hm.map.width
        mh == hm.map.height
        x_offset == CenterOffset(w, mw)
        y_offset == CenterOffset(h, mh)
    IN  IF OverlayPutPanics(w, h, mw, mh, x_offset, y_offset)
        THEN [status |-> "Panic", canvas |-> cv, offset |-> <<x_offset, y_offset>>]
        ELSE [status |-> "Ok",
              canvas |-> Overlay(cv, OverlayImage(hm, style, alpha, w, h, x_offset, y_offset)),
              offset |-> <<x_offset, y_offset>>]

\* <Vec<HeatMap> as Drawable>::draw: each heatmap in list order; a panic ends the call
RECURSIVE VecDrawResult(_, _, _, _)
VecDrawResult(hs, c, cv, off) ==
    IF hs = <<>> THEN [status |-> "Ok", canvas |-> cv, offset |-> off]
    ELSE LET r == HeatMapDrawResult(Head(hs), c, cv)
         IN  IF r.status # "Ok" THEN r
             ELSE VecDrawResult(Tail(hs), c, r.canvas, r.offset)

\* ------------------------------------------------------------------ inputs
ByteSeq == <<0, 255, 127, 51, 229>>

Rasters ==
    {GrayImage(w, h, Fill(ByteSeq, "ramp", off, w * h)) :
        w \in 1..MaxRaster, h \in 1..MaxRaster, off \in {1, 3}}

LocalStyles == {<<>>, <<Style(<<60>>, <<>>)>>, <<Style(<<>>, <<"gray">>)>>}

HeatMaps == {[HeatmapFrom(r) EXCEPT !.style = st] : r \in Rasters, st \in LocalStyles}

\* the k-th element of a drawn Vec: the first heatmap with its raster values rotated
Rotated(hm, k) ==
    [hm EXCEPT !.map.data =
        [j \in 1..Len(hm.map.data) |-> hm.map.data[((j + k - 2) % Len(hm.map.data)) + 1]]]

Contexts ==
    {[heatmap_style |-> hs, mask_style |-> ms] :
        hs \in {<<>>, <<Style(<<200>>, <<>>)>>},
        ms \in {<<>>, <<Style(<<30>>, <<"invert">>)>>}}

Backgrounds == {<<10, 20, 30, 255>>, <<200, 100, 50, 128>>, Transparent}

Canvases ==
    {[width |-> w, height |-> h, data |-> [j \in 1..(w * h) |-> bg]] :
        w \in 1..MaxCanvas, h \in 1..MaxCanvas, bg \in Backgrounds}

NoContext == [heatmap_style |-> <<>>, mask_style |-> <<>>]
NoCanvas == [width |-> 0, height |-> 0, data |-> <<>>]

\* ------------------------------------------------------------------ postprocess
Init ==
    /\ model \in Models
    /\ \E n \in 0..ExpectedOutputs, m \in MapTensors, s \in ScoreTensors :
          xs = SubSeq(IF model = "GLASS" THEN <<m, Unused, Unused, Unused>>
                      ELSE <<s, Unused, m, Unused>>, 1, n)
    /\ ret = Pending
    /\ target = "None" /\ hms = <<>> /\ ctx = NoContext
    /\ canvas = NoCanvas /\ before = NoCanvas /\ offset = <<0, 0>> /\ drawn = "Idle"

DinomalyPostprocess ==
    /\ model = "Dinomaly" /\ ret = Pending
    /\ ret' = DinomalyResult(xs)
    /\ UNCHANGED <<model, xs, target, hms, ctx, canvas, before, offset, drawn>>

UniNetPostprocess ==
    /\ model = "UniNet" /\ ret = Pending
    /\ ret' = UniNetResult(xs)
    /\ UNCHANGED <<model, xs, target, hms, ctx, canvas, before, offset, drawn>>

GLASSPostprocess ==
    /\ model = "GLASS" /\ ret = Pending
    /\ ret' = GLASSResult(xs)
    /\ UNCHANGED <<model, xs, target, hms, ctx, canvas, before, offset, drawn>>

Next == DinomalyPostprocess \/ UniNetPostprocess \/ GLASSPostprocess

Spec == Init /\ [][Next]_vars

\* ------------------------------------------------------------------ rendering
InitDraw ==
    /\ model = "None" /\ xs = <<>> /\ ret = [tag |-> "Idle"]
    /\ target \in {"HeatMap", "Vec"}
    /\ \E hm \in HeatMaps, n \in 1..MaxVec :
          hms = [k \in 1..(IF target = "HeatMap" THEN 1 ELSE n) |-> Rotated(hm, k)]
    /\ ctx \in Contexts
    /\ canvas \in Canvases
    /\ before = canvas
    /\ offset = <<0, 0>>
    /\ drawn = "Pending"

HeatMapDraw ==
    /\ target = "HeatMap" /\ drawn = "Pending"
    /\ LET r == HeatMapDrawResult(hms[1], ctx, canvas)
       IN  canvas' = r.canvas /\ offset' = r.offset /\ drawn' = r.status
    /\ UNCHANGED <<model, xs, ret, target, hms, ctx, before>>

VecDraw ==
    /\ target = "Vec" /\ drawn = "Pending"
    /\ LET r == VecDrawResult(hms, ctx, canvas, offset)
       IN  canvas' = r.canvas /\ offset' = r.offset /\ drawn' = r.status
    /\ UNCHANGED <<model, xs, ret, target, hms, ctx, before>>

NextDraw == HeatMapDraw \/ VecDraw

SpecDraw == InitDraw /\ [][NextDraw]_vars

\* ==================================================================== claims
\* ------------------------------------------------------------ postprocess
Dual == {"Dinomaly", "UniNet"}

\* the tensors a strategy reads are there: tensor[0] and tensor[2], or tensor[0] alone
HasRequired == IF model = "GLASS" THEN Len(xs) >= 1 ELSE Len(xs) >= 3

MapTensor == IF model = "GLASS" THEN xs[1] ELSE xs[3]
BatchDim == MapTensor.shape[1]
MapH == MapTensor.shape[Len(MapTensor.shape) - 1]
MapW == MapTensor.shape[Len(MapTensor.shape)]

\* the elements of batch slice k (k = 1..B), and element [y, x] of its H x W map
SliceData(k) ==
    SubSeq(MapTensor.data, (k - 1) * Size(Tail(MapTensor.shape)) + 1,
           k * Size(Tail(MapTensor.shape)))
MapAt(k, y, x) == SliceData(k)[y * MapW + x + 1]

\* the raster written for an item (GLASS: the one its 900 x 900 heatmap is resized from)
RasterOf(item) ==
    IF model = "GLASS" THEN item.heatmaps[1].map.data.src ELSE item.heatmaps[1].map

\* floor(clamp(v, 0, 1) * 255) of a number v
Quantize(v) ==
    LET c == IF v.num < 0 THEN 0 ELSE IF v.num > v.den THEN v.den ELSE v.num
    IN  (c * 255) \div v.den

RatEq(a, b) == ~a.nan /\ ~b.nan /\ a.num * b.den = b.num * a.den
InUnit(c) == ~c.nan /\ 0 <= c.num /\ c.num <= c.den

\* C1: when postprocess succeeds on a map tensor of batch dimension B, it returns
\* exactly B items, and the raster of the k-th item holds the quantized elements of
\* batch slice k, in order.
C1_BatchCardinality ==
    ret.tag = "Ok" =>
        /\ Len(ret.val) = BatchDim
        /\ \A k \in 1..Len(ret.val) :
              /\ Len(RasterOf(ret.val[k]).data) = Len(SliceData(k))
              /\ \A j \in 1..Len(SliceData(k)) :
                    ~SliceData(k)[j].nan =>
                        RasterOf(ret.val[k]).data[j] = Quantize(SliceData(k)[j])

\* a batch of two whose slices give different rasters, both returned
C1_Witness ==
    /\ ret.tag = "Ok"
    /\ BatchDim = 2
    /\ Len(ret.val) = 2
    /\ RasterOf(ret.val[1]) # RasterOf(ret.val[2])

\* the empty batch returns the empty sequence
C1_WitnessEmpty == ret.tag = "Ok" /\ BatchDim = 0 /\ ret.val = <<>>

\* C2: with fewer tensors than the strategy reads, postprocess returns an error
\* value: it neither panics nor returns items.
C2_MissingTensorsReturnErr ==
    (~HasRequired /\ ret # Pending) => ret.tag = "Err"

\* C3: every byte of an item's raster is floor(clamp(v, 0, 1) * 255) of the map
\* element v of the same row and column.
C3_Quantization ==
    ret.tag = "Ok" =>
        \A k \in 1..Len(ret.val) :
            /\ RasterOf(ret.val[k]).width = MapW
            /\ RasterOf(ret.val[k]).height = MapH
            /\ \A y \in 0..(MapH - 1), x \in 0..(MapW - 1) :
                  ~MapAt(k, y, x).nan =>
                      GetPixel(RasterOf(ret.val[k]), x, y) = Quantize(MapAt(k, y, x))

\* C4: every confidence of a returned heatmap or probability lies in [0, 1], and
\* the GLASS peak score of a map whose values all clamp to 0 is 0.
C4_ConfidenceInUnit ==
    ret.tag = "Ok" =>
        \A k \in 1..Len(ret.val) :
            /\ \A n \in 1..Len(ret.val[k].heatmaps) :
                  ret.val[k].heatmaps[n].confidence # <<>> =>
                      InUnit(ret.val[k].heatmaps[n].confidence[1])
            /\ \A n \in 1..Len(ret.val[k].probs) : InUnit(ret.val[k].probs[n].confidence)
            /\ (model = "GLASS" /\ \A j \in 1..Len(SliceData(k)) :
                                       ~SliceData(k)[j].nan /\ SliceData(k)[j].num <= 0)
                  => RatEq(ret.val[k].probs[1].confidence, Zero)

\* C5: in the dual-tensor strategies the heatmap confidence of batch index i is the
\* clamped global score of index i (tensor[0][i], or tensor[0][i, 0] at rank 2),
\* whatever the spatial map holds.
ScoreAt(i) ==
    IF Len(xs[1].shape) = 1 THEN xs[1].data[i + 1] ELSE xs[1].data[i * xs[1].shape[2] + 1]

ClampedScore(v) ==
    IF v.num < 0 THEN Zero ELSE IF v.num > v.den THEN One ELSE v

C5_GlobalScoreIsConfidence ==
    (model \in Dual /\ ret.tag = "Ok") =>
        \A k \in 1..Len(ret.val) :
            /\ ret.val[k].heatmaps[1].confidence # <<>>
            /\ ~ScoreAt(k - 1).nan =>
                  RatEq(ret.val[k].heatmaps[1].confidence[1], ClampedScore(ScoreAt(k - 1)))

\* score [0.3] with a map of all 0.9 gives confidence 0.3
C5_Witness ==
    /\ model \in Dual /\ ret.tag = "Ok" /\ Len(ret.val) >= 1
    /\ ScoreAt(0) = F(3)
    /\ \A j \in 1..Len(MapTensor.data) : MapTensor.data[j] = F(9)
    /\ RatEq(ret.val[1].heatmaps[1].confidence[1], F(3))

\* an out-of-range score is clamped
C5_WitnessClamped ==
    /\ model \in Dual /\ ret.tag = "Ok" /\ Len(ret.val) >= 1
    /\ ScoreAt(0) = F(12)
    /\ RatEq(ret.val[1].heatmaps[1].confidence[1], One)

\* C6: with an edge-ignore width e, GLASS forces every pixel of a column x < e or
\* x >= width - e to 0 in the raster and leaves it out of the peak score.
RECURSIVE MaxNum(_)
MaxNum(S) ==
    IF S = {} THEN 0
    ELSE LET a == CHOOSE a \in S : TRUE
             m == MaxNum(S \ {a})
         IN  IF a > m THEN a ELSE m

InteriorMax(k, e) ==
    MaxNum({Quantize(MapAt(k, y, x)) :
                y \in 0..(MapH - 1), x \in {c \in 0..(MapW - 1) : c >= e /\ c < MapW - e}})

C6_EdgeIgnore ==
    \A e \in 0..MaxEdge :
        (model = "GLASS" /\ ret.tag = "Ok" /\ Len(MapTensor.shape) = 3
           /\ \A j \in 1..Len(MapTensor.data) : ~MapTensor.data[j].nan) =>
            \A k \in 1..Len(ret.val) :
                /\ \A y \in 0..(MapH - 1), x \in 0..(MapW - 1) :
                      (x < e \/ x >= MapW - e) => GetPixel(RasterOf(ret.val[k]), x, y) = 0
                /\ Times255AsU8(ret.val[k].probs[1].confidence) = InteriorMax(k, e)

\* C7: every strategy takes its map with and without the singleton channel axis:
\* postprocess succeeds and each raster is W wide and H high with pixel (x, y)
\* taken from map element [y, x].
WellFormedOutputs ==
    /\ IF model = "GLASS" THEN Len(xs) >= 1 ELSE Len(xs) = ExpectedOutputs
    /\ model \in Dual => xs[1].shape[1] >= BatchDim

C7_BothLayouts ==
    (WellFormedOutputs /\ ret # Pending) =>
        /\ ret.tag = "Ok"
        /\ \A k \in 1..Len(ret.val) :
              /\ RasterOf(ret.val[k]).width = MapW
              /\ RasterOf(ret.val[k]).height = MapH
              /\ \A y \in 0..(MapH - 1), x \in 0..(MapW - 1) :
                    ~MapAt(k, y, x).nan =>
                        GetPixel(RasterOf(ret.val[k]), x, y) = Quantize(MapAt(k, y, x))

\* ------------------------------------------------------------ rendering
\* the style the resolution order names: own style, else the context's heatmap
\* style, else the built-in default
ClaimedStyle(hm, c) ==
    IF hm.style # <<>> THEN hm.style[1]
    ELSE IF c.heatmap_style # <<>> THEN c.heatmap_style[1]
    ELSE StyleDefault

AlphaOf(style) ==
    IF style.color_fill_alpha # <<>> THEN style.color_fill_alpha[1] ELSE 120

RECURSIVE ClaimedCanvas(_, _, _)
ClaimedCanvas(hs, c, cv) ==
    IF hs = <<>> THEN cv
    ELSE ClaimedCanvas(Tail(hs), c,
            Overlay(cv, OverlayImage(Head(hs), ClaimedStyle(Head(hs), c),
                                      AlphaOf(ClaimedStyle(Head(hs), c)),
                                      cv.width, cv.height, offset[1], offset[2])))

\* C8: a heatmap, drawn alone or as an element of a Vec, is painted with its own
\* style, else the context's heatmap style, else the built-in default.
C8_StyleResolution ==
    drawn = "Ok" => canvas = ClaimedCanvas(hms, ctx, before)

\* C9: draw writes raster pixel (x, y) at canvas position (x + x_offset,
\* y + y_offset), with offset = max(0, (canvas_dim - raster_dim) / 2) per axis.
ExpectedOffset(canvasDim, rasterDim) ==
    IF canvasDim > rasterDim THEN (canvasDim - rasterDim) \div 2 ELSE 0

\* the colours the drawn heatmaps put on raster pixel (x, y), blended in draw order
RECURSIVE Painted(_, _, _, _)
Painted(hs, px, x, y) ==
    IF hs = <<>> THEN px
    ELSE LET st == UpdateStyle(GetLocalStyle(Head(hs)), GetGlobalStyle(Head(hs), ctx),
                               GetId(Head(hs)))
         IN  Painted(Tail(hs), Blend(px, Color(GetPixel(Head(hs).map, x, y), st, AlphaOf(st))),
                     x, y)

C9_Centering ==
    drawn \in {"Ok", "Panic"} =>
        LET xo == ExpectedOffset(before.width, hms[1].map.width)
            yo == ExpectedOffset(before.height, hms[1].map.height)
        IN  /\ offset = <<xo, yo>>
            /\ drawn = "Ok" =>
                  \A y \in 0..(hms[1].map.height - 1), x \in 0..(hms[1].map.width - 1) :
                      /\ x + xo < canvas.width /\ y + yo < canvas.height
                      /\ GetPixel(canvas, x + xo, y + yo)
                            = Painted(hms, GetPixel(before, x + xo, y + yo), x, y)

\* a 2 x 2 raster on a 4 x 4 canvas is written at offset (1, 1)
C9_Witness ==
    /\ drawn = "Ok"
    /\ before.width = 4 /\ before.height = 4
    /\ hms[1].map.width = 2 /\ hms[1].map.height = 2
    /\ offset = <<1, 1>>
    /\ GetPixel(canvas, 1, 1) # GetPixel(before, 1, 1)
    /\ GetPixel(canvas, 2, 2) # GetPixel(before, 2, 2)
    /\ GetPixel(canvas, 0, 0) = GetPixel(before, 0, 0)

\* C10: on a canvas smaller than the raster in some dimension, draw uses offset 0
\* on that axis, skips the pixels that fall outside, and returns Ok.
CanvasSmaller ==
    before.width < hms[1].map.width \/ before.height < hms[1].map.height

C10_SmallCanvasClips ==
    (CanvasSmaller /\ drawn # "Pending") =>
        /\ drawn = "Ok"
        /\ before.width < hms[1].map.width => offset[1] = 0
        /\ before.height < hms[1].map.height => offset[2] = 0
        /\ canvas.width = before.width /\ canvas.height = before.height

\* C11: draw leaves every canvas pixel outside the raster footprint
\* [x_offset, x_offset + raster_w) x [y_offset, y_offset + raster_h) as it was, and
\* leaves the canvas dimensions as they were.
InFootprint(px, py) ==
    LET xo == ExpectedOffset(before.width, hms[1].map.width)
        yo == ExpectedOffset(before.height, hms[1].map.height)
    IN  /\ px >= xo /\ px < xo + hms[1].map.width
        /\ py >= yo /\ py < yo + hms[1].map.height

C11_OutsideFootprintUnchanged ==
    drawn \in {"Ok", "Panic"} =>
        /\ canvas.width = before.width /\ canvas.height = before.height
        /\ Len(canvas.data) = Len(before.data)
        /\ \A py \in 0..(before.height - 1), px \in 0..(before.width - 1) :
              ~InFootprint(px, py) => GetPixel(canvas, px, py) = GetPixel(before, px, py)

\* a 2 x 2 raster drawn on a 4 x 4 canvas: the footprint changed, the border did not
C11_Witness ==
    /\ drawn = "Ok"
    /\ before.width = 4 /\ before.height = 4
    /\ hms[1].map.width = 2 /\ hms[1].map.height = 2
    /\ \A py \in 0..3, px \in 0..3 :
          IF InFootprint(px, py)
          THEN GetPixel(canvas, px, py) # GetPixel(before, px, py)
          ELSE GetPixel(canvas, px, py) = GetPixel(before, px, py)

====
